---- MODULE Spec2Model ----
(***************************************************************************)
(* CrazyRL: the functional (JAX) Escort environment and the object         *)
(* (numpy) Hover environment.                                              *)
(*                                                                         *)
(* Lengths are integers in millimetres (1 unit of the source = 1000), so   *)
(* that the thresholds 0.2 and 0.001 of the source are 200 and 1.  The     *)
(* comparisons of a Euclidean norm with a threshold are made on the        *)
(* squares, which is exact.  Actions are integers in units of the source   *)
(* (1 = a full-scale action component).  Boolean-valued float arrays       *)
(* (terminations, truncations) hold 0 or 1.  Agents are 1..num_drones      *)
(* (the source indexes them from 0).                                       *)
(***************************************************************************)
EXTENDS Integers, Sequences, FiniteSets, TLC

VARIABLES
    env,     \* which environment this run drives: "escort" or "hover"
    state,   \* the escort State record (escort.py, class State)
    hover,   \* the fields of the Hover object (timestep, locations, agents)
    hret,    \* what the last Hover reset/step returned
    last,    \* the operation that produced the current state
    pre,     \* what the state that operation was applied to looked like
    quiet,   \* every escort transition since the last reset had the zero action
    states,  \* the Batch Driver's array of State replicas
    seen,    \* the flags of each replica between vmapped_step and vmapped_auto_reset
    shadow   \* replica 1 run on its own, outside the batch, with the same actions

vars == <<env, state, hover, hret, last, pre, quiet, states, seen, shadow>>

(***************************************************************************)
(* Small numeric helpers (jax.numpy / numpy primitives).                   *)
(***************************************************************************)
Min(a, b) == IF a < b THEN a ELSE b
Max(a, b) == IF a > b THEN a ELSE b

\* jnp.clip(x, lo, hi) on one component
clip(x, lo, hi) == Min(Max(x, lo), hi)

RECURSIVE SeqSum(_)
SeqSum(s) == IF s = <<>> THEN 0 ELSE Head(s) + SeqSum(Tail(s))

\* sum of the squares of the components of a vector
SumSq(v) == SeqSum([k \in 1..Len(v) |-> v[k] * v[k]])

VecSub(a, b) == [k \in 1..Len(a) |-> a[k] - b[k]]

RECURSIVE SqrtSearch(_, _, _)
SqrtSearch(n, lo, hi) ==
    IF lo >= hi THEN lo
    ELSE LET mid == (lo + hi + 1) \div 2
         IN  IF mid * mid <= n THEN SqrtSearch(n, mid, hi)
                               ELSE SqrtSearch(n, lo, mid - 1)

Abs(x) == IF x < 0 THEN -x ELSE x

\* jnp.linalg.norm of one vector, rounded down to a whole millimetre (the
\* search starts below the sum of the absolute components, which bounds it)
norm(v) == SqrtSearch(SumSq(v), 0, SeqSum([k \in 1..Len(v) |-> Abs(v[k])]))

\* jnp.any over an array of 0/1 flags, as 0/1
any(flags) == IF \E k \in 1..Len(flags) : flags[k] # 0 THEN 1 ELSE 0

\* b * jnp.ones(n)
ones(n, b) == [k \in 1..n |-> b]

RECURSIVE Flatten(_)
Flatten(ss) == IF ss = <<>> THEN <<>> ELSE Head(ss) \o Flatten(Tail(ss))

\* jnp.delete(rows, agent, axis=0)
delete(rows, agent) ==
    [k \in 1..(Len(rows) - 1) |-> IF k < agent THEN rows[k] ELSE rows[k + 1]]

(***************************************************************************)
(* Escort configuration (the constructor's arguments).                     *)
(***************************************************************************)
\* size of the map in metres
size == 1

init_flying_pos == << <<100, 0, 600>>, <<1000, 0, 1000>> >>

num_drones == Len(init_flying_pos)

Agents == 1..num_drones

init_target_location == <<600, 0, 1000>>

final_target_location == <<1000, 0, 1000>>

num_intermediate_points == 2

num_ref_points == num_intermediate_points + 2

\* the reference trajectory; ref[t + 1] is the source's ref[t]
ref ==
    [t1 \in 1..num_ref_points |->
        [k \in 1..3 |->
            init_target_location[k]
              + ((final_target_location[k] - init_target_location[k]) * (t1 - 1))
                    \div num_ref_points]]

\* ref[i] with jax's clamping of an index that is out of bounds
RefAt(i) == ref[clip(i, 0, num_ref_points - 1) + 1]

(***************************************************************************)
(* Escort: the sub-steps of a transition, each State -> State.             *)
(***************************************************************************)
\* the observation rows of a State: own position, the target, then the
\* positions of the other agents (column_stack, then append along axis 1)
Escort_obs_rows(locs, target) ==
    [a \in Agents |-> locs[a] \o target[1] \o Flatten(delete(locs, a))]

Escort_compute_obs(s) ==
    [s EXCEPT !.observations = Escort_obs_rows(s.agents_locations, s.target_location)]

\* the mask taken against the number of intermediate points
Escort_transition_state_short(s) ==
    LET finished == IF s.timestep < num_intermediate_points THEN 1 ELSE 0
    IN  [s EXCEPT !.target_location =
            << [k \in 1..3 |-> finished * RefAt(s.timestep)[k]
                                 + (1 - finished) * ref[num_ref_points][k]] >>]

Escort_transition_state(s) ==
    LET finished == IF s.timestep < num_ref_points THEN 1 ELSE 0
    IN  [s EXCEPT !.target_location =
            << [k \in 1..3 |-> finished * RefAt(s.timestep)[k]
                                 + (1 - finished) * ref[num_ref_points][k]] >>]

\* the distance covered by a full-scale action component (0.2)
StepScale == 200

\* clipped to the bounds of the hover variant, [-size - 1, size - 1]
Escort_sanitize_action_hover_bounds(s, actions) ==
    [s EXCEPT !.agents_locations =
        [a \in Agents |->
            [k \in 1..3 |->
                clip(s.agents_locations[a][k] + actions[a][k] * StepScale,
                     IF k = 3 THEN 0 ELSE (-size - 1) * 1000,
                     (size - 1) * 1000)]]]

\* the action added without the 0.2 scale
Escort_sanitize_action_unscaled(s, actions) ==
    [s EXCEPT !.agents_locations =
        [a \in Agents |->
            [k \in 1..3 |->
                clip(s.agents_locations[a][k] + actions[a][k] * 1000,
                     IF k = 3 THEN 0 ELSE -(size * 1000),
                     size * 1000)]]]

Escort_sanitize_action(s, actions) ==
    [s EXCEPT !.agents_locations =
        [a \in Agents |->
            [k \in 1..3 |->
                clip(s.agents_locations[a][k] + actions[a][k] * StepScale,
                     IF k = 3 THEN 0 ELSE -(size * 1000),
                     size * 1000)]]]

\* rewards are integers in units of 1 / (100000 * (num_drones - 1)) of the
\* source's reward, so that 0.05 / (num_drones - 1) and 0.95 are 5 and
\* 95 * (num_drones - 1); the norms are whole millimetres
RewardUnit == 100000 * (num_drones - 1)

\* the crash reward of the source, -10
CrashReward == -10

Escort_shaping(s, a) ==
    5 * SeqSum([b \in Agents |-> norm(VecSub(s.agents_locations[a], s.agents_locations[b]))])
      + 95 * (num_drones - 1)
           * (2 * size * 1000 - norm(VecSub(s.agents_locations[a], s.target_location[1])))

Escort_compute_reward(s) ==
    [s EXCEPT !.rewards =
        [a \in Agents |->
            any(s.truncations) * Escort_shaping(s, a)
              + any(s.terminations) * (1 - any(s.truncations)) * CrashReward * RewardUnit * 1]]

\* the collision distance 0.2 and the self-distance threshold 0.001
CollisionDist == 200

SelfDist == 1

\* line 150-152: ground collision per agent, OR-ed with ONE scalar: the norm
\* of the whole (num_drones x 3) difference matrix (no axis argument)
Escort_ground_or_target(s) ==
    LET all_to_target ==
            SeqSum([a \in Agents |-> SumSq(VecSub(s.agents_locations[a], s.target_location[1]))])
    IN  [a \in Agents |->
            s.agents_locations[a][3] < CollisionDist
              \/ all_to_target < CollisionDist * CollisionDist]

\* line 154-160: one round of the loop over the agents
\* the upper bound taken inclusive
Escort_drone_collision_inclusive(s, a) ==
    \E b \in Agents :
        LET d2 == SumSq(VecSub(s.agents_locations[a], s.agents_locations[b]))
        IN  d2 > SelfDist * SelfDist /\ d2 <= CollisionDist * CollisionDist

\* an agent excluded from its own test by index, not by distance
Escort_drone_collision_by_index(s, a) ==
    \E b \in Agents :
        LET d2 == SumSq(VecSub(s.agents_locations[a], s.agents_locations[b]))
        IN  b # a /\ d2 < CollisionDist * CollisionDist

Escort_drone_collision(s, a) ==
    \E b \in Agents :
        LET d2 == SumSq(VecSub(s.agents_locations[a], s.agents_locations[b]))
        IN  d2 > SelfDist * SelfDist /\ d2 < CollisionDist * CollisionDist

Escort_terminated(s) ==
    [a \in Agents |-> Escort_ground_or_target(s)[a] \/ Escort_drone_collision(s, a)]

\* the flags are latched: OR-ed with the flags the State already carries
Escort_compute_terminated_latched(s) ==
    LET terminated == Escort_terminated(s)
    IN  [s EXCEPT !.terminations =
            ones(num_drones,
                 IF (\E a \in Agents : terminated[a]) \/ any(s.terminations) = 1
                 THEN 1 ELSE 0)]

\* the flags are kept per agent instead of being broadcast
Escort_compute_terminated_per_agent(s) ==
    LET terminated == Escort_terminated(s)
    IN  [s EXCEPT !.terminations =
            [a \in Agents |-> IF terminated[a] THEN 1 ELSE 0]]

Escort_compute_terminated(s) ==
    LET terminated == Escort_terminated(s)
    IN  [s EXCEPT !.terminations =
            ones(num_drones, IF \E a \in Agents : terminated[a] THEN 1 ELSE 0)]

\* the step budget of an escort episode
EscortLimit == 100

\* off by one: the flags are raised a step early
Escort_compute_truncation_early(s) ==
    [s EXCEPT !.truncations =
        ones(num_drones, IF s.timestep + 1 = EscortLimit THEN 1 ELSE 0)]

Escort_compute_truncation(s) ==
    [s EXCEPT !.truncations =
        ones(num_drones, IF s.timestep = EscortLimit THEN 1 ELSE 0)]

Escort_reset ==
    Escort_compute_obs(
        [agents_locations |-> init_flying_pos,
         timestep         |-> 0,
         observations     |-> <<>>,
         rewards          |-> ones(num_drones, 0),
         terminations     |-> ones(num_drones, 0),
         truncations      |-> ones(num_drones, 0),
         target_location  |-> << init_target_location >>])

\* the sum taken as a count: 2 when both kinds of flag are set
Escort_done_count(s) == any(s.truncations) + any(s.terminations)

\* line 189: the sum of two jnp booleans is a boolean (their OR), 0 or 1
Escort_done(s) ==
    IF any(s.truncations) + any(s.terminations) >= 1 THEN 1 ELSE 0

\* the counter left out of the blend
Escort_auto_reset_blend_keep_timestep(s, done) ==
    Escort_compute_obs(
        [agents_locations |->
            [a \in Agents |-> [k \in 1..3 |->
                done * init_flying_pos[a][k] + (1 - done) * s.agents_locations[a][k]]],
         timestep         |-> s.timestep,
         observations     |-> s.observations,
         rewards          |-> [a \in Agents |-> (1 - done) * s.rewards[a]],
         terminations     |-> [a \in Agents |-> (1 - done) * s.terminations[a]],
         truncations      |-> [a \in Agents |-> (1 - done) * s.truncations[a]],
         target_location  |->
            [r \in 1..Len(s.target_location) |-> [k \in 1..3 |->
                done * init_target_location[k] + (1 - done) * s.target_location[r][k]]]])

\* the observation of the incoming State kept instead of being recomputed
Escort_auto_reset_blend_stale_obs(s, done) ==
    [agents_locations |->
        [a \in Agents |-> [k \in 1..3 |->
            done * init_flying_pos[a][k] + (1 - done) * s.agents_locations[a][k]]],
     timestep         |-> (1 - done) * s.timestep,
     observations     |-> s.observations,
     rewards          |-> [a \in Agents |-> (1 - done) * s.rewards[a]],
     terminations     |-> [a \in Agents |-> (1 - done) * s.terminations[a]],
     truncations      |-> [a \in Agents |-> (1 - done) * s.truncations[a]],
     target_location  |->
        [r \in 1..Len(s.target_location) |-> [k \in 1..3 |->
            done * init_target_location[k] + (1 - done) * s.target_location[r][k]]]]

\* the continued positions dropped from the blend
Escort_auto_reset_blend_unmasked(s, done) ==
    Escort_compute_obs(
        [agents_locations |->
            [a \in Agents |-> [k \in 1..3 |-> done * init_flying_pos[a][k]]],
         timestep         |-> (1 - done) * s.timestep,
         observations     |-> s.observations,
         rewards          |-> [a \in Agents |-> (1 - done) * s.rewards[a]],
         terminations     |-> [a \in Agents |-> (1 - done) * s.terminations[a]],
         truncations      |-> [a \in Agents |-> (1 - done) * s.truncations[a]],
         target_location  |->
            [r \in 1..Len(s.target_location) |-> [k \in 1..3 |->
                done * init_target_location[k] + (1 - done) * s.target_location[r][k]]]])

\* line 191-200: every field blended by the 0/1 mask, then the observation
Escort_auto_reset_blend(s, done) ==
    Escort_compute_obs(
        [agents_locations |->
            [a \in Agents |-> [k \in 1..3 |->
                done * init_flying_pos[a][k] + (1 - done) * s.agents_locations[a][k]]],
         timestep         |-> (1 - done) * s.timestep,
         observations     |-> s.observations,
         rewards          |-> [a \in Agents |-> (1 - done) * s.rewards[a]],
         terminations     |-> [a \in Agents |-> (1 - done) * s.terminations[a]],
         truncations      |-> [a \in Agents |-> (1 - done) * s.truncations[a]],
         target_location  |->
            [r \in 1..Len(s.target_location) |-> [k \in 1..3 |->
                done * init_target_location[k] + (1 - done) * s.target_location[r][k]]]])

\* the done signal ignored: every call resets
Escort_auto_reset_always(s) == Escort_auto_reset_blend(s, 1)

Escort_auto_reset(s) == Escort_auto_reset_blend(s, Escort_done(s))

\* BaseParallelEnv.step of the jax package: the counter advances, then the
\* sub-steps run in the order sanitize, advance world, observe, reward,
\* terminate, truncate
Escort_step(s, actions) ==
    LET s0 == [s EXCEPT !.timestep = s.timestep + 1]
        s1 == Escort_sanitize_action(s0, actions)
        s2 == Escort_transition_state(s1)
        s3 == Escort_compute_obs(s2)
        s4 == Escort_compute_reward(s3)
        s5 == Escort_compute_terminated(s4)
    IN  Escort_compute_truncation(s5)

(***************************************************************************)
(* Hover: an object with mutable fields; its methods return per-agent      *)
(* mappings.  The configuration is the one of test_hover.                  *)
(***************************************************************************)
hover_size == 4

hover_init_flying_pos == << <<0, 0, 1000>>, <<1000, 1000, 1000>> >>

HoverAgents == 1..Len(hover_init_flying_pos)

Hover_compute_obs(h) ==
    [a \in HoverAgents |-> h.agent_location[a] \o h.target_location[a]]

\* the observation and action spaces of an agent (spaces.Box low and high)
Hover_observation_low ==
    << (-hover_size - 1) * 1000, (-hover_size - 1) * 1000, 0,
       (-hover_size - 1) * 1000, (-hover_size - 1) * 1000, 0 >>

Hover_observation_high == [k \in 1..6 |-> (hover_size - 1) * 1000]

Hover_action_low == <<-1, -1, -1>>

Hover_action_high == <<1, 1, 1>>

\* clipped to the bounds of the escort variant, [-size, size]
Hover_compute_action_escort_bounds(h, actions) ==
    [a \in HoverAgents |->
        [k \in 1..3 |->
            clip(h.agent_location[a][k] + actions[a][k] * 1000,
                 IF k = 3 THEN 0 ELSE -(hover_size * 1000),
                 hover_size * 1000)]]

Hover_compute_action(h, actions) ==
    [a \in HoverAgents |->
        [k \in 1..3 |->
            clip(h.agent_location[a][k] + actions[a][k] * 1000,
                 IF k = 3 THEN 0 ELSE (-hover_size - 1) * 1000,
                 (hover_size - 1) * 1000)]]

\* -1 * norm ** 2, in square millimetres
Hover_compute_reward(h) ==
    [a \in HoverAgents |-> -1 * SumSq(VecSub(h.target_location[a], h.agent_location[a]))]

Hover_compute_terminated(h) == [a \in HoverAgents |-> FALSE]

\* the step budget of a hover episode
HoverLimit == 200

\* returns the truncation mapping and the object as the method leaves it
Hover_compute_truncation(h) ==
    IF h.timestep = HoverLimit
    THEN [truncation |-> [a \in HoverAgents |-> TRUE],
          self       |-> [h EXCEPT !.agents = {}, !.timestep = 0]]
    ELSE [truncation |-> [a \in HoverAgents |-> FALSE],
          self       |-> h]

\* the object after __init__ followed by reset
Hover_reset ==
    [timestep        |-> 0,
     agent_location  |-> hover_init_flying_pos,
     target_location |-> hover_init_flying_pos,
     agents          |-> HoverAgents]

\* BaseParallelEnv.step of the numpy package: the counter advances, the
\* drones move to the sanitized target point, then the mappings are computed
Hover_step(h, actions) ==
    LET h0 == [h EXCEPT !.timestep = h.timestep + 1]
        h1 == [h0 EXCEPT !.agent_location = Hover_compute_action(h0, actions)]
        tr == Hover_compute_truncation(h1)
    IN  [self |-> tr.self,
         ret  |-> [observations |-> Hover_compute_obs(h1),
                   rewards      |-> Hover_compute_reward(h1),
                   terminations |-> Hover_compute_terminated(h1),
                   truncations  |-> tr.truncation]]

Hover_reset_ret ==
    [observations |-> Hover_compute_obs(Hover_reset),
     rewards      |-> [a \in HoverAgents |-> 0],
     terminations |-> [a \in HoverAgents |-> FALSE],
     truncations  |-> [a \in HoverAgents |-> FALSE]]

(***************************************************************************)
(* The Batch Driver: the vmapped functions and the body of the fori_loop.  *)
(* The key is not modelled: the actions it yields are inputs of the body.  *)
(***************************************************************************)
\* number of states in parallel
num_envs == 2

Envs == 1..num_envs

vmapped_reset == [i \in Envs |-> Escort_reset]

vmapped_step(actions, batch) == [i \in Envs |-> Escort_step(batch[i], actions[i])]

\* the done signal taken over the whole batch instead of per replica
vmapped_auto_reset_shared(batch) ==
    LET done == IF \E i \in Envs : Escort_done(batch[i]) = 1 THEN 1 ELSE 0
    IN  [i \in Envs |-> Escort_auto_reset_blend(batch[i], done)]

vmapped_auto_reset(batch) == [i \in Envs |-> Escort_auto_reset(batch[i])]

\* the iteration without the auto-reset
body_step_only(batch, actions) == vmapped_step(actions, batch)

body(batch, actions) == vmapped_auto_reset(vmapped_step(actions, batch))

(***************************************************************************)
(* The inputs: joint actions, one 3-vector per agent.                      *)
(***************************************************************************)
Zero3 == <<0, 0, 0>>

ZeroAction == [a \in Agents |-> Zero3]

\* escort: agent 1 moves along x or z by a full-scale step; agent 2 keeps
\* its place in the map corner, or pushes against the walls there
JointActions ==
    { << Zero3, Zero3 >>,
      << <<1, 0, 0>>, Zero3 >>, << <<-1, 0, 0>>, Zero3 >>,
      << <<0, 0, 1>>, Zero3 >>, << <<0, 0, -1>>, Zero3 >>,
      << Zero3, <<1, 0, 1>> >> }

\* hover: agent 1 moves along x or z by one unit
HoverJointActions ==
    { << Zero3, Zero3 >>,
      << <<1, 0, 0>>, Zero3 >>, << <<-1, 0, 0>>, Zero3 >>,
      << <<0, 0, 1>>, Zero3 >>, << <<0, 0, -1>>, Zero3 >> }

\* no episode of the model is driven past this many transitions
MaxT == 102

(***************************************************************************)
(* The state machine.  A run drives one of the two environments.           *)
(***************************************************************************)
Flags(s) == [term  |-> any(s.terminations),
             trunc |-> any(s.truncations),
             fresh |-> s = Escort_reset,
             timestep |-> s.timestep]

Init ==
    /\ env \in {"escort", "hover"}
    /\ state = Escort_reset
    /\ hover = Hover_reset
    /\ hret = Hover_reset_ret
    /\ last = "reset"
    /\ pre = Flags(Escort_reset)
    /\ quiet = TRUE
    /\ states = vmapped_reset
    /\ seen = [i \in Envs |-> Flags(Escort_reset)]
    /\ shadow = Escort_reset

Reset ==
    /\ env = "escort"
    /\ state' = Escort_reset
    /\ last' = "reset"
    /\ pre' = Flags(state)
    /\ quiet' = TRUE
    /\ UNCHANGED <<env, hover, hret, states, seen, shadow>>

Step(actions) ==
    /\ env = "escort"
    /\ state.timestep < MaxT
    /\ state' = Escort_step(state, actions)
    /\ last' = "step"
    /\ pre' = Flags(state)
    /\ quiet' = (quiet /\ actions = ZeroAction)
    /\ UNCHANGED <<env, hover, hret, states, seen, shadow>>

AutoReset ==
    /\ env = "escort"
    /\ state' = Escort_auto_reset(state)
    /\ last' = "auto_reset"
    /\ pre' = Flags(state)
    /\ UNCHANGED <<env, hover, hret, quiet, states, seen, shadow>>

HoverReset ==
    /\ env = "hover"
    /\ hover' = Hover_reset
    /\ hret' = Hover_reset_ret
    /\ last' = "hover_reset"
    /\ pre' = [pre EXCEPT !.timestep = hover.timestep]
    /\ UNCHANGED <<env, state, quiet, states, seen, shadow>>

\* the caller steps while parallel_env.agents is not empty
HoverStep(actions) ==
    /\ env = "hover"
    /\ hover.agents # {}
    /\ hover' = Hover_step(hover, actions).self
    /\ hret' = Hover_step(hover, actions).ret
    /\ last' = "hover_step"
    /\ pre' = [pre EXCEPT !.timestep = hover.timestep]
    /\ UNCHANGED <<env, state, quiet, states, seen, shadow>>

Next ==
    \/ Reset
    \/ \E actions \in JointActions : Step(actions)
    \/ AutoReset
    \/ HoverReset
    \/ \E actions \in HoverJointActions : HoverStep(actions)

Spec == Init /\ [][Next]_vars

(***************************************************************************)
(* The Batch Driver as a state machine: play resets the batch, then every  *)
(* iteration of the loop applies body to it.                               *)
(***************************************************************************)
\* replica 1: agent 1 keeps its place or descends by a full-scale step
ReplicaActions == { << Zero3, Zero3 >>, << <<0, 0, -1>>, Zero3 >> }

\* the other replicas: agent 1 descends, straight or while moving along x,
\* so that they crash and are reset while replica 1 is in mid-episode
FallingActions == { << <<0, 0, -1>>, Zero3 >>, << <<1, 0, -1>>, Zero3 >> }

BatchActions ==
    { [i \in Envs |-> IF i = 1 THEN a1 ELSE a2] :
          a1 \in ReplicaActions, a2 \in FallingActions }

InitDriver ==
    /\ env = "driver"
    /\ state = Escort_reset
    /\ hover = Hover_reset
    /\ hret = Hover_reset_ret
    /\ last = "play"
    /\ pre = Flags(Escort_reset)
    /\ quiet = TRUE
    /\ states = vmapped_reset
    /\ seen = [i \in Envs |-> Flags(Escort_reset)]
    /\ shadow = Escort_reset

Body(actions) ==
    /\ env = "driver"
    /\ states' = body(states, actions)
    /\ seen' = [i \in Envs |-> Flags(vmapped_step(actions, states)[i])]
    /\ shadow' = Escort_auto_reset(Escort_step(shadow, actions[1]))
    /\ last' = "body"
    /\ UNCHANGED <<env, state, hover, hret, pre, quiet>>

NextDriver == \E actions \in BatchActions : Body(actions)

SpecDriver == InitDriver /\ [][NextDriver]_vars

(***************************************************************************)
(* The Termination Checker as a function: the State is drawn, the checker  *)
(* is applied to it once.                                                  *)
(***************************************************************************)
\* positions inside the map, some of them 0.19, 0.2 and 0.21 apart
CheckerPoints ==
    { <<0, 0, 600>>, <<190, 0, 600>>, <<200, 0, 600>>, <<210, 0, 600>>,
      <<0, 0, 790>>, <<0, 0, 800>>, <<0, 0, 190>>, <<0, 0, 200>>,
      <<900, 0, 1000>>, <<1000, 0, 1000>>, <<800, 0, 1000>>, <<-1000, -1000, 0>>,
      <<1, 0, 600>> }

InitChecker ==
    /\ env = "checker"
    /\ \E p1 \in CheckerPoints, p2 \in CheckerPoints, t \in 0..num_ref_points :
          state = Escort_compute_obs(
                      Escort_transition_state(
                          [Escort_reset EXCEPT !.agents_locations = <<p1, p2>>,
                                               !.timestep = t]))
    /\ hover = Hover_reset
    /\ hret = Hover_reset_ret
    /\ last = "drawn"
    /\ pre = Flags(Escort_reset)
    /\ quiet = TRUE
    /\ states = vmapped_reset
    /\ seen = [i \in Envs |-> Flags(Escort_reset)]
    /\ shadow = Escort_reset

CheckTerminated ==
    /\ env = "checker"
    /\ last = "drawn"
    /\ state' = Escort_compute_terminated(state)
    /\ last' = "terminated"
    /\ pre' = Flags(state)
    /\ UNCHANGED <<env, hover, hret, quiet, states, seen, shadow>>

NextChecker == CheckTerminated

SpecChecker == InitChecker /\ [][NextChecker]_vars

(***************************************************************************)
(* Properties.                                                             *)
(***************************************************************************)
AllFlags(flags, b) == \A k \in 1..Len(flags) : flags[k] = b

\* squared distance of agent a to the shared target, and between two agents
TargetDist2(s, a) == SumSq(VecSub(s.agents_locations[a], s.target_location[1]))

AgentDist2(s, a, b) == SumSq(VecSub(s.agents_locations[a], s.agents_locations[b]))

\* C1: truncation fires exactly when the counter reaches the limit and never
\* earlier.  Escort: in every State the truncation flags are all 1 when
\* timestep = 100 and all 0 otherwise, and a transition advances timestep by
\* one.  Hover: the mapping returned by a step is all True when that step
\* brought the counter to 200 and all False otherwise (0..199).
C1_TruncationAtLimit ==
    /\ env = "escort" =>
          /\ AllFlags(state.truncations, IF state.timestep = 100 THEN 1 ELSE 0)
          /\ last = "step" => state.timestep = pre.timestep + 1
    /\ env = "hover" =>
          /\ last = "hover_step" =>
                \A a \in HoverAgents :
                    hret.truncations[a] = (pre.timestep + 1 = 200)
          /\ last = "hover_reset" =>
                \A a \in HoverAgents : hret.truncations[a] = FALSE
          /\ pre.timestep \in 0..199

C1_Witness ==
    /\ env = "escort"
    /\ last = "step"
    /\ state.timestep = 100
    /\ AllFlags(state.truncations, 1)

\* C2 as stated: a transition applied to a State whose termination flag is
\* set yields a State whose termination flag is set.
C2_TerminationMonotone ==
    (env = "escort" /\ last = "step" /\ pre.term = 1) => any(state.terminations) = 1

\* some collision condition of the checker holds in the State itself
CollisionIn(s) ==
    \/ \E a \in Agents : s.agents_locations[a][3] < 200
    \/ SeqSum([a \in Agents |-> TargetDist2(s, a)]) < 200 * 200
    \/ \E a \in Agents, b \in Agents :
          AgentDist2(s, a, b) > 1 /\ AgentDist2(s, a, b) < 200 * 200

\* C2 amended: termination is recomputed, not latched.  After a transition
\* applied to a State whose termination flag is set, the flag is set exactly
\* when a collision condition holds in the resulting State.
C2_TerminationRecomputed ==
    (env = "escort" /\ last = "step" /\ pre.term = 1) =>
        (any(state.terminations) = 1 <=> CollisionIn(state))

C2_Witness ==
    /\ env = "escort"
    /\ last = "step"
    /\ pre.term = 1
    /\ any(state.terminations) = 0

\* C3: Auto-Reset applied to a State with some truncation or termination flag
\* set returns the fresh State, also when both kinds of flag are set.
C3_DoneResets ==
    (env = "escort" /\ last = "auto_reset" /\ (pre.term = 1 \/ pre.trunc = 1)) =>
        /\ state.agents_locations = init_flying_pos
        /\ state.timestep = 0
        /\ AllFlags(state.rewards, 0)
        /\ AllFlags(state.terminations, 0)
        /\ AllFlags(state.truncations, 0)
        /\ state.target_location = << init_target_location >>
        /\ state = Escort_reset

C3_Witness ==
    /\ env = "escort"
    /\ last = "auto_reset"
    /\ pre.term = 1
    /\ pre.trunc = 1
    /\ state = Escort_reset

\* C4: Auto-Reset applied to the State returned by reset reproduces that
\* State in every field, and so does the blend with the done mask forced to 1.
C4_FreshFixpoint ==
    /\ (env = "escort" /\ last = "auto_reset" /\ pre.fresh) => state = Escort_reset
    /\ (env = "escort" /\ state = Escort_reset) =>
          /\ Escort_auto_reset(state) = state
          /\ Escort_auto_reset_blend(state, 1) = state

C4_Witness ==
    /\ env = "escort"
    /\ last = "auto_reset"
    /\ pre.fresh
    /\ state = Escort_reset

\* C5: Auto-Reset applied to a State with no truncation and no termination
\* flag set changes nothing but the observation, which it recomputes from the
\* unchanged locations and target.
C5_NotDonePassThrough ==
    [][(env = "escort" /\ last' = "auto_reset"
          /\ any(state.truncations) = 0 /\ any(state.terminations) = 0)
        => state' = [state EXCEPT !.observations =
                        Escort_obs_rows(state.agents_locations, state.target_location)]]_vars

C5_Witness ==
    /\ env = "escort"
    /\ last = "auto_reset"
    /\ pre.term = 0
    /\ pre.trunc = 0
    /\ state.timestep > 0
    /\ state.agents_locations # init_flying_pos

\* C6: in every State returned by a transition the reward follows the flags
\* of that same State: 0 when no flag is set, the crash reward -10 when a
\* termination flag and no truncation flag is set, the shaping value when a
\* truncation flag is set.
C6_RewardFollowsFlags ==
    (env = "escort" /\ last = "step") =>
        \A a \in Agents :
            state.rewards[a] =
                IF any(state.truncations) = 1 THEN Escort_shaping(state, a)
                ELSE IF any(state.terminations) = 1 THEN -10 * RewardUnit
                ELSE 0

\* C7: whenever some agent is within 0.2 of the shared target after a
\* transition, the termination flag is set for all agents.
C7_TargetCollisionTerminates ==
    (env = "escort" /\ last = "step") =>
        ((\E a \in Agents : TargetDist2(state, a) < 200 * 200)
            => AllFlags(state.terminations, 1))

\* C8: in every State produced by the Termination Checker the flags of all
\* agents are equal: all 1 when some agent is below altitude 0.2 or within
\* (0.001, 0.2) of another agent, all 0 when no agent is below altitude 0.2,
\* within 0.2 of the target or within (0.001, 0.2) of another agent.
C8_TerminationBroadcast ==
    (env = "escort" /\ last = "step") =>
        /\ \A a \in Agents, b \in Agents : state.terminations[a] = state.terminations[b]
        /\ (\E a \in Agents :
                \/ state.agents_locations[a][3] < 200
                \/ \E b \in Agents : AgentDist2(state, a, b) > 1
                                       /\ AgentDist2(state, a, b) < 200 * 200)
              => AllFlags(state.terminations, 1)
        /\ (\A a \in Agents :
                /\ state.agents_locations[a][3] >= 200
                /\ TargetDist2(state, a) >= 200 * 200
                /\ \A b \in Agents : ~(AgentDist2(state, a, b) > 1
                                        /\ AgentDist2(state, a, b) < 200 * 200))
              => AllFlags(state.terminations, 0)

\* one agent alone triggers a collision condition and every flag is raised
C8_Witness ==
    /\ env = "escort"
    /\ last = "step"
    /\ state.agents_locations[1][3] < 200
    /\ state.agents_locations[2][3] >= 200
    /\ AgentDist2(state, 1, 2) >= 200 * 200
    /\ AllFlags(state.terminations, 1)

\* both agents above altitude 0.2 and neither within 0.2 of the target
ClearOfGroundAndTarget(s) ==
    \A a \in Agents : s.agents_locations[a][3] >= 200 /\ TargetDist2(s, a) >= 200 * 200

\* C9: the inter-agent test has a strict upper bound: two agents exactly 0.2
\* apart, above altitude 0.2 and away from the target, are not flagged; two
\* agents 0.19 apart are flagged.
C9_StrictUpperBound ==
    (env = "checker" /\ last = "terminated") =>
        /\ (AgentDist2(state, 1, 2) = 200 * 200 /\ ClearOfGroundAndTarget(state))
              => AllFlags(state.terminations, 0)
        /\ AgentDist2(state, 1, 2) = 190 * 190
              => AllFlags(state.terminations, 1)

C9_Witness ==
    /\ env = "checker"
    /\ last = "terminated"
    /\ AgentDist2(state, 1, 2) = 200 * 200
    /\ ClearOfGroundAndTarget(state)
    /\ AllFlags(state.terminations, 0)

\* the other half of the boundary: 0.19 apart, clear of ground and target
C9_FlaggedBelow ==
    /\ env = "checker"
    /\ last = "terminated"
    /\ AgentDist2(state, 1, 2) = 190 * 190
    /\ ClearOfGroundAndTarget(state)
    /\ AllFlags(state.terminations, 1)

\* C11: replicas do not interact.  Replica 1 of the batch is, after every
\* iteration, in the State it reaches when it runs alone with the same
\* actions, whatever the other replicas do and whenever they are reset.
C11_ReplicaAlone ==
    env = "driver" => states[1] = shadow

\* another replica was reset in this iteration, replica 1 was not
C11_Witness ==
    /\ env = "driver"
    /\ last = "body"
    /\ \E j \in Envs : j # 1 /\ seen[j].term = 1 /\ states[j] = Escort_reset
    /\ seen[1].term = 0
    /\ seen[1].trunc = 0
    /\ states[1].timestep > 3
    /\ states[1] = shadow

\* the waypoint the target is at after a transition that made timestep t
WaypointAt(t) == IF t < num_ref_points THEN ref[t + 1] ELSE ref[num_ref_points]

\* C12: reset followed by any number of transitions with the zero action
\* keeps every agent exactly at its initial position; the target follows the
\* world advancer.
C12_ZeroActionNoDrift ==
    (env = "escort" /\ quiet) =>
        /\ state.agents_locations = init_flying_pos
        /\ state.target_location = << WaypointAt(state.timestep) >>

C12_Witness ==
    /\ env = "escort"
    /\ quiet
    /\ last = "step"
    /\ state.timestep = 7
    /\ state.agents_locations = init_flying_pos
    /\ state.target_location # << init_target_location >>

\* position plus scale times action, clipped per axis to [lo, lo, 0] .. hi
Moved(locs, actions, scale, lo, hi) ==
    [a \in 1..Len(locs) |->
        [k \in 1..3 |->
            LET raw == locs[a][k] + scale * actions[a][k]
                low == IF k = 3 THEN 0 ELSE lo
            IN  IF raw < low THEN low ELSE IF raw > hi THEN hi ELSE raw]]

InBox(locs, lo, hi) ==
    \A a \in 1..Len(locs) :
        /\ lo <= locs[a][1] /\ locs[a][1] <= hi
        /\ lo <= locs[a][2] /\ locs[a][2] <= hi
        /\ 0 <= locs[a][3] /\ locs[a][3] <= hi

\* C13 as stated: in both variants the sanitizer moves each agent to its
\* position plus 0.2 times its action, clipped to [-size, -size, 0] .. size,
\* changes no other field, and every coordinate stays in that box.
C13_SanitizerBothVariants ==
    /\ env = "escort" =>
          /\ \A actions \in JointActions :
                Escort_sanitize_action(state, actions) =
                    [state EXCEPT !.agents_locations =
                        Moved(state.agents_locations, actions, 200, -size * 1000, size * 1000)]
          /\ InBox(state.agents_locations, -size * 1000, size * 1000)
    /\ env = "hover" =>
          /\ \A actions \in HoverJointActions :
                Hover_compute_action(hover, actions) =
                    Moved(hover.agent_location, actions, 200,
                          -hover_size * 1000, hover_size * 1000)
          /\ InBox(hover.agent_location, -hover_size * 1000, hover_size * 1000)

\* C13 amended: the escort sanitizer is as stated; the hover sanitizer adds
\* the action unscaled and clips to [-size - 1, -size - 1, 0] .. size - 1,
\* and the coordinates of each variant stay in its own box.
C13_SanitizerPerVariant ==
    /\ env = "escort" =>
          /\ \A actions \in JointActions :
                Escort_sanitize_action(state, actions) =
                    [state EXCEPT !.agents_locations =
                        Moved(state.agents_locations, actions, 200, -size * 1000, size * 1000)]
          /\ InBox(state.agents_locations, -size * 1000, size * 1000)
    /\ env = "hover" =>
          /\ \A actions \in HoverJointActions :
                Hover_compute_action(hover, actions) =
                    Moved(hover.agent_location, actions, 1000,
                          (-hover_size - 1) * 1000, (hover_size - 1) * 1000)
          /\ InBox(hover.agent_location, (-hover_size - 1) * 1000, (hover_size - 1) * 1000)

\* the hover agent clipped at x = -size - 1 and at z = size - 1
C13_Witness ==
    /\ env = "hover"
    /\ last = "hover_step"
    /\ hover.agent_location[1][1] = (-hover_size - 1) * 1000
    /\ hover.agent_location[1][3] = (hover_size - 1) * 1000

C15_HoverObservationInSpace ==
    env = "hover" =>
        /\ \A actions \in HoverJointActions : \A a \in HoverAgents : \A k \in 1..3 :
              Hover_action_low[k] <= actions[a][k] /\ actions[a][k] <= Hover_action_high[k]
        /\ \A a \in HoverAgents :
              /\ Len(hret.observations[a]) = 6
              /\ hret.observations[a] = hover.agent_location[a] \o hover.target_location[a]
              /\ \A k \in 1..6 :
                    /\ Hover_observation_low[k] <= hret.observations[a][k]
                    /\ hret.observations[a][k] <= Hover_observation_high[k]
              /\ hret.terminations[a] = FALSE

\* agent 1 pushed against the upper x bound of the observation space
C15_Witness ==
    /\ env = "hover"
    /\ last = "hover_step"
    /\ hret.observations[1][1] = Hover_observation_high[1]
    /\ hret.observations[1][3] = Hover_observation_low[3]

\* C16: the reference trajectory has num_intermediate_points + 2 waypoints,
\* the first is the initial target and the last is the final target, so a
\* target that holds at the last waypoint is at the configured final target.
C16_TrajectoryEndsAtFinal ==
    /\ Len(ref) = num_intermediate_points + 2
    /\ ref[1] = init_target_location
    /\ ref[Len(ref)] = final_target_location
    /\ (env = "escort" /\ last = "step" /\ state.timestep >= Len(ref))
          => state.target_location = << final_target_location >>

\* what the code builds: the last waypoint is one interval short of the final
\* target, and the target holds there
C16_LastWaypointShort ==
    /\ Len(ref) = num_intermediate_points + 2
    /\ ref[1] = init_target_location
    /\ \A k \in 1..3 :
          ref[Len(ref)][k] * Len(ref) =
              init_target_location[k] * Len(ref)
                + (final_target_location[k] - init_target_location[k]) * (Len(ref) - 1)
    /\ (env = "escort" /\ last = "step" /\ state.timestep >= Len(ref))
          => state.target_location = << ref[Len(ref)] >>

\* the sub-steps of an escort transition that return a State keep the counter
EscortSubStepsKeepTimestep ==
    /\ \A actions \in JointActions :
          Escort_sanitize_action(state, actions).timestep = state.timestep
    /\ Escort_transition_state(state).timestep = state.timestep
    /\ Escort_compute_obs(state).timestep = state.timestep
    /\ Escort_compute_reward(state).timestep = state.timestep
    /\ Escort_compute_terminated(state).timestep = state.timestep
    /\ Escort_compute_truncation(state).timestep = state.timestep

EscortTimestepCounts ==
    /\ last = "reset" => state.timestep = 0
    /\ last = "step" => state.timestep = pre.timestep + 1
    /\ last = "auto_reset" =>
          state.timestep = IF pre.term = 1 \/ pre.trunc = 1 THEN 0 ELSE pre.timestep
    /\ EscortSubStepsKeepTimestep

\* C17 as stated: timestep starts at 0, grows by exactly one per transition
\* and goes back to 0 only through Auto-Reset when done; no sub-step, the
\* truncation computation included, changes it by itself.
C17_TimestepCounts ==
    /\ env = "escort" => EscortTimestepCounts
    /\ env = "hover" =>
          /\ last = "hover_reset" => hover.timestep = 0
          /\ last = "hover_step" => hover.timestep = pre.timestep + 1
          /\ Hover_compute_truncation([hover EXCEPT !.timestep = @ + 1]).self.timestep
                = hover.timestep + 1

\* C17 amended: as stated for the escort environment; in the hover
\* environment the truncation computation itself puts the counter back to 0
\* when it has reached 200, and leaves it alone otherwise.
C17_TimestepCountsHoverWraps ==
    /\ env = "escort" => EscortTimestepCounts
    /\ env = "hover" =>
          /\ last = "hover_reset" => hover.timestep = 0
          /\ last = "hover_step" =>
                hover.timestep = IF pre.timestep + 1 = 200 THEN 0 ELSE pre.timestep + 1
          /\ Hover_compute_truncation([hover EXCEPT !.timestep = @ + 1]).self.timestep
                = IF hover.timestep + 1 = 200 THEN 0 ELSE hover.timestep + 1

C17_Witness ==
    /\ env = "hover"
    /\ last = "hover_step"
    /\ pre.timestep = 199
    /\ hover.timestep = 0

\* C18: the world advancer sets the target to the waypoint indexed by
\* timestep while timestep is below the number of waypoints and to the last
\* waypoint from then on, and changes no other field.
C18_WorldAdvancer ==
    env = "escort" =>
        LET expected == IF state.timestep < Len(ref)
                        THEN ref[state.timestep + 1]
                        ELSE ref[Len(ref)]
        IN  /\ Escort_transition_state(state) =
                  [state EXCEPT !.target_location = << expected >>]
            /\ last = "step" => state.target_location = << expected >>

\* the target holds at the last waypoint, past the end of the trajectory
C18_Witness ==
    /\ env = "escort"
    /\ last = "step"
    /\ state.timestep = Len(ref) + 2
    /\ state.target_location = << ref[Len(ref)] >>
    /\ Escort_transition_state(state).target_location = << ref[Len(ref)] >>

\* C19: after every iteration of the batch driver every replica has its
\* termination and truncation flags cleared and timestep below 100, and a
\* replica whose transition ended its episode is back at the initial State;
\* an iteration either resets a replica or advances its counter by one, so
\* no replica goes 100 consecutive iterations without an auto-reset.
C19_DriverInvariant ==
    env = "driver" =>
        \A i \in Envs :
            /\ AllFlags(states[i].terminations, 0)
            /\ AllFlags(states[i].truncations, 0)
            /\ states[i].timestep \in 0..99
            /\ seen[i].timestep <= 100
            /\ IF seen[i].term = 1 \/ seen[i].trunc = 1
               THEN states[i] = Escort_reset
               ELSE states[i].timestep = seen[i].timestep
            /\ \A actions \in BatchActions :
                  \/ body(states, actions)[i] = Escort_reset
                  \/ body(states, actions)[i].timestep = states[i].timestep + 1

\* replica 1 flew a whole episode and was reset by truncation
C19_Witness ==
    /\ env = "driver"
    /\ last = "body"
    /\ seen[1].trunc = 1
    /\ seen[1].term = 0
    /\ seen[1].timestep = 100
    /\ states[1] = Escort_reset

\* C20: two distinct agents at distance at most 0.001, coincident agents
\* included, are not flagged by the inter-agent test: when both are above
\* altitude 0.2 and away from the target, termination stays False.
C20_CoincidentNotFlagged ==
    (env = "checker" /\ last = "terminated") =>
        ((AgentDist2(state, 1, 2) <= 1 /\ ClearOfGroundAndTarget(state))
            => AllFlags(state.terminations, 0))

C20_Witness ==
    /\ env = "checker"
    /\ last = "terminated"
    /\ state.agents_locations[1] = state.agents_locations[2]
    /\ ClearOfGroundAndTarget(state)
    /\ AllFlags(state.terminations, 0)

\* the same at exactly 0.001 apart
C20_WitnessOneApart ==
    /\ env = "checker"
    /\ last = "terminated"
    /\ AgentDist2(state, 1, 2) = 1
    /\ ClearOfGroundAndTarget(state)
    /\ AllFlags(state.terminations, 0)

====
